---- MODULE Spec2Model ----
(***************************************************************************)
(* Claim Loss Timing dashboard (DashboardSdateVsDol.py): the pipeline      *)
(*   upload -> rename -> validate -> clean -> deduplicate -> features ->   *)
(*   sidebar filters -> dashboard aggregates.                              *)
(*                                                                         *)
(* A table is [cols |-> set of column names, rows |-> sequence of rows];   *)
(* a row is [idx |-> pandas index label, cells |-> [column -> cell]].      *)
(* Cells of text columns are strings, the null cell being NaN.  Cells of   *)
(* the date and amount columns are records [k, v]:                         *)
(*   k = "date"  a datetime cell of day number v                           *)
(*   k = "text"  a string cell spelling the date of day number v           *)
(*   k = "junk"  a string cell that spells no date                         *)
(*   k = "num"   a number v                                                *)
(*   k = "null"  an empty cell (NaN / NaT)                                 *)
(* Floats are kept exact: a quotient is the record [num, den].             *)
(* Bucket labels are written with an ASCII hyphen for the source's dash.   *)
(* The UY column (line 133) is display only and is not tracked.            *)
(***************************************************************************)
EXTENDS Integers, Sequences, FiniteSets, TLC

VARIABLES pc, df_raw, missing_required, df, initial_rows, after_drop,
          after_dedup, filters, df_f, freq, amt, cause_freq, cause_amt

vars == <<pc, df_raw, missing_required, df, initial_rows, after_drop,
          after_dedup, filters, df_f, freq, amt, cause_freq, cause_amt>>

-----------------------------------------------------------------------------
(* Bounds of the explored uploads *)

MaxRows == 2

MaxLagDays == 722

-----------------------------------------------------------------------------
(* Program constants *)

COLUMN_MAPPING ==
    ("Kode okupasi" :> "Kode Okupasi") @@ ("kode okupasi" :> "Kode Okupasi") @@
    ("Kategori Okupasi" :> "Kategori Risiko") @@
    ("kategori okupasi" :> "Kategori Risiko") @@
    ("EDate" :> "End Date") @@ ("Edate" :> "End Date") @@
    ("COB" :> "Channel Business")

REQUIRED_COLS ==
    <<"Nomor klaim", "StartDate", "Date of Loss", "Claim Amount", "Cause of Loss">>

OPTIONAL_COLS ==
    <<"Kode Okupasi", "Occupancy", "Kategori Risiko", "Channel Business">>

AGG_COLS ==
    <<"StartDate", "Date of Loss", "Claim Amount", "Cause of Loss",
      "Kode Okupasi", "Occupancy", "Kategori Risiko", "Channel Business">>

FILTER_COLS ==
    <<"Kategori Risiko", "Occupancy", "Cause of Loss", "Channel Business">>

AbsentFill == "ALL"

NullFill == "UNKNOWN"

MonthDays == 30

NaN == "NaN"

NaT == [k |-> "null", v |-> 0]

NumericCols == {"StartDate", "Date of Loss", "Claim Amount"}

-----------------------------------------------------------------------------
(* Generic helpers *)

Range(s) == {s[i] : i \in DOMAIN s}

RECURSIVE SumSeq(_)
SumSeq(s) == IF s = <<>> THEN 0 ELSE Head(s) + SumSeq(Tail(s))

SetMin(S) == CHOOSE m \in S : \A n \in S : m <= n

\* sorted(): the order Python gives the strings that occur in the uploads
SortOrder ==
    <<"0-3 bulan", ">12-24 bulan", ">24 bulan", ">3-6 bulan", ">6-12 bulan",
      "ALL", "Agent", "Broker", "Fire", "Flood", "High", "Home",
      "K1", "K2", "Low", "O1", "O2", "Shop", "UNKNOWN">>

Sorted(S) == SelectSeq(SortOrder, LAMBDA k : k \in S)

EmptyTable == [cols |-> {}, rows |-> <<>>]

Column(t, c) == [i \in DOMAIN t.rows |-> t.rows[i].cells[c]]

isna(c, x) == IF c \in NumericCols THEN x.k = "null" ELSE x = NaN

-----------------------------------------------------------------------------
(* COLUMN MAPPING: df_raw.rename(columns=COLUMN_MAPPING) *)

Canon(c) == IF c \in DOMAIN COLUMN_MAPPING THEN COLUMN_MAPPING[c] ELSE c

rename(t) ==
    LET newcols == {Canon(c) : c \in t.cols}
    IN  [cols |-> newcols,
         rows |-> [i \in DOMAIN t.rows |->
                     [idx   |-> t.rows[i].idx,
                      cells |-> [c \in newcols |->
                                   t.rows[i].cells[CHOOSE o \in t.cols : Canon(o) = c]]]]]


MissingRequired_all(t) ==
    SelectSeq(REQUIRED_COLS \o OPTIONAL_COLS, LAMBDA c : c \notin t.cols)

MissingRequired(t) == SelectSeq(REQUIRED_COLS, LAMBDA c : c \notin t.cols)

-----------------------------------------------------------------------------
(* DATA CLEANING *)

to_datetime(x) ==
    CASE x.k = "date" -> x
      [] x.k = "text" -> [k |-> "date", v |-> x.v]
      [] OTHER        -> NaT

ParseDates(t) ==
    [t EXCEPT !.rows =
        [i \in DOMAIN t.rows |->
            [t.rows[i] EXCEPT !.cells =
                [c \in t.cols |->
                    IF c \in {"StartDate", "Date of Loss"}
                    THEN to_datetime(t.rows[i].cells[c])
                    ELSE t.rows[i].cells[c]]]]]


dropna_any(t, subset) ==
    [t EXCEPT !.rows =
        SelectSeq(t.rows, LAMBDA r :
            \A c \in Range(subset) \ {"Claim Amount"} : ~isna(c, r.cells[c]))]

dropna(t, subset) ==
    [t EXCEPT !.rows =
        SelectSeq(t.rows, LAMBDA r : \A c \in Range(subset) : ~isna(c, r.cells[c]))]


fillna_keep(x, value) == x

fillna(x, value) == IF x = NaN THEN value ELSE x

FillColumn(t, col) ==
    [cols |-> t.cols \cup {col},
     rows |-> [i \in DOMAIN t.rows |->
                 [t.rows[i] EXCEPT !.cells =
                     [c \in t.cols \cup {col} |->
                         IF c # col THEN t.rows[i].cells[c]
                         ELSE IF col \notin t.cols THEN AbsentFill
                         ELSE fillna(t.rows[i].cells[c], NullFill)]]]]

RECURSIVE FillOptional(_, _)
FillOptional(t, todo) ==
    IF todo = <<>> THEN t
    ELSE FillOptional(FillColumn(t, Head(todo)), Tail(todo))

-----------------------------------------------------------------------------
(* DEDUPLICATION: groupby("Nomor klaim", as_index=False).agg({...}) *)


agg_min_first(s) == IF s = <<>> THEN NaT ELSE Head(s)

agg_min(s) ==
    LET vals == {s[i].v : i \in {j \in DOMAIN s : s[j].k # "null"}}
    IN  IF vals = {} THEN NaT ELSE [k |-> "date", v |-> SetMin(vals)]


agg_sum_first(s) == IF s = <<>> THEN [k |-> "num", v |-> 0] ELSE Head(s)

agg_sum(s) ==
    [k |-> "num",
     v |-> SumSeq([i \in DOMAIN s |-> IF s[i].k = "null" THEN 0 ELSE s[i].v])]


agg_first_last(s) == IF s = <<>> THEN NaN ELSE s[Len(s)]

agg_first(s) ==
    LET nn == SelectSeq(s, LAMBDA x : x # NaN)
    IN  IF nn = <<>> THEN NaN ELSE Head(nn)


AggOf_maxloss(c, s) ==
    CASE c = "StartDate"    -> agg_min(s)
      [] c = "Date of Loss" ->
            [k |-> "date",
             v |-> CHOOSE m \in {s[i].v : i \in DOMAIN s} :
                      \A i \in DOMAIN s : s[i].v <= m]
      [] c = "Claim Amount" -> agg_sum(s)
      [] OTHER              -> agg_first(s)

AggOf(c, s) ==
    CASE c \in {"StartDate", "Date of Loss"} -> agg_min(s)
      [] c = "Claim Amount"                  -> agg_sum(s)
      [] OTHER                               -> agg_first(s)


GroupKeys_rows(t, by) == Column(t, by)

GroupKeys(t, by) ==
    Sorted({t.rows[i].cells[by] : i \in DOMAIN t.rows} \ {NaN})

GroupRows(t, by, key) ==
    [cols |-> t.cols, rows |-> SelectSeq(t.rows, LAMBDA r : r.cells[by] = key)]

Deduplicate(t) ==
    LET keys == GroupKeys(t, "Nomor klaim")
    IN  [cols |-> {"Nomor klaim"} \cup Range(AGG_COLS),
         rows |-> [g \in DOMAIN keys |->
                     [idx   |-> g - 1,
                      cells |-> [c \in {"Nomor klaim"} \cup Range(AGG_COLS) |->
                                   IF c = "Nomor klaim" THEN keys[g]
                                   ELSE AggOf(c, Column(GroupRows(t, "Nomor klaim", keys[g]), c))]]]]

-----------------------------------------------------------------------------
(* FEATURE ENGINEERING *)

LossLagDays(r) == r.cells["Date of Loss"].v - r.cells["StartDate"].v

LossLagMonths(days) == [num |-> days, den |-> MonthDays]

\* x <= n for the exact quotient x (den > 0)
Leq(x, n) == x.num <= n * x.den


loss_bucket_strict(x) ==
    IF x.num < 3 * x.den THEN "0-3 bulan"
    ELSE IF x.num < 6 * x.den THEN ">3-6 bulan"
    ELSE IF x.num < 12 * x.den THEN ">6-12 bulan"
    ELSE IF x.num < 24 * x.den THEN ">12-24 bulan"
    ELSE ">24 bulan"

loss_bucket(x) ==
    IF Leq(x, 3) THEN "0-3 bulan"
    ELSE IF Leq(x, 6) THEN ">3-6 bulan"
    ELSE IF Leq(x, 12) THEN ">6-12 bulan"
    ELSE IF Leq(x, 24) THEN ">12-24 bulan"
    ELSE ">24 bulan"

FeatureCols == {"Loss Lag Days", "Loss Lag Months", "Loss Timing Bucket"}

AddFeatures(t) ==
    [cols |-> t.cols \cup FeatureCols,
     rows |-> [i \in DOMAIN t.rows |->
                 [t.rows[i] EXCEPT !.cells =
                     [c \in t.cols \cup FeatureCols |->
                         CASE c = "Loss Lag Days" -> LossLagDays(t.rows[i])
                           [] c = "Loss Lag Months" ->
                                LossLagMonths(LossLagDays(t.rows[i]))
                           [] c = "Loss Timing Bucket" ->
                                loss_bucket(LossLagMonths(LossLagDays(t.rows[i])))
                           [] OTHER -> t.rows[i].cells[c]]]]]

-----------------------------------------------------------------------------
(* SIDEBAR FILTERS *)

Unique(t, c) == {t.rows[i].cells[c] : i \in DOMAIN t.rows}

ApplyFilters(t, f) ==
    [t EXCEPT !.rows =
        SelectSeq(t.rows, LAMBDA r : \A c \in Range(FILTER_COLS) : r.cells[c] \in f[c])]

-----------------------------------------------------------------------------
(* DASHBOARD and CAUSE OF LOSS CONTRIBUTION *)

GroupSize(t, by) ==
    LET keys == Sorted(Unique(t, by))
    IN  [g \in DOMAIN keys |->
            [key |-> keys[g], value |-> Len(GroupRows(t, by, keys[g]).rows)]]

GroupSum(t, by, c) ==
    LET keys == Sorted(Unique(t, by))
    IN  [g \in DOMAIN keys |->
            [key |-> keys[g],
             value |-> agg_sum(Column(GroupRows(t, by, keys[g]), c)).v]]

ViewTotal(view) == SumSeq([g \in DOMAIN view |-> view[g].value])

\* value / total * 100, kept as the exact quotient; den = 0 is NaN or inf
Kontribusi(view) ==
    [g \in DOMAIN view |->
        [key |-> view[g].key, value |-> view[g].value,
         pct |-> [num |-> view[g].value * 100, den |-> ViewTotal(view)]]]

-----------------------------------------------------------------------------
(* UPLOAD DATA: the tables pd.read_excel can return.  Headers never hold   *)
(* two spellings of one canonical column, so rename yields distinct names. *)

D(n) == [k |-> "date", v |-> n]

T(n) == [k |-> "text", v |-> n]

Junk == [k |-> "junk", v |-> 0]

Num(n) == [k |-> "num", v |-> n]

Field(c, rec) ==
    CASE c = "Nomor klaim"      -> rec.id
      [] c = "StartDate"        -> rec.sd
      [] c = "Date of Loss"     -> rec.dol
      [] c = "Claim Amount"     -> rec.amt
      [] c = "Cause of Loss"    -> rec.col
      [] c = "Kode Okupasi"     -> rec.ko
      [] c = "Occupancy"        -> rec.occ
      [] c = "Kategori Risiko"  -> rec.kr
      [] c = "Channel Business" -> rec.ch
      [] OTHER                  -> rec.ed

MkTable(header, recs) ==
    [cols |-> header,
     rows |-> [i \in DOMAIN recs |->
                 [idx   |-> i - 1,
                  cells |-> [c \in header |-> Field(Canon(c), recs[i])]]]]

SeqsUpTo(P) == UNION {[1..n -> P] : n \in 0..MaxRows}

ReqSet == Range(REQUIRED_COLS)

OptSet == Range(OPTIONAL_COLS)

BaseRow ==
    [id |-> "K1", sd |-> D(0), dol |-> T(31), amt |-> Num(100), col |-> "Fire",
     ko |-> "O1", occ |-> "Home", kr |-> "Low", ch |-> "Agent", ed |-> "2022"]

\* rows that differ in claim id, dates and amount
NumRows ==
    {[BaseRow EXCEPT !.id = i, !.sd = D(p[1]), !.dol = T(p[2]), !.amt = Num(a)] :
        i \in {"K1", "K2"},
        p \in {<<0, 0>>, <<0, 31>>, <<40, 50>>, <<40, 0>>},
        a \in {0, 100, 150}}

\* rows with an empty or unparseable cell
NullRows ==
    {BaseRow,
     [BaseRow EXCEPT !.id = "K2", !.amt = Num(150), !.ko = NaN, !.ch = NaN],
     [BaseRow EXCEPT !.id = NaN],
     [BaseRow EXCEPT !.sd = Junk],
     [BaseRow EXCEPT !.sd = NaT],
     [BaseRow EXCEPT !.dol = Junk],
     [BaseRow EXCEPT !.dol = NaT],
     [BaseRow EXCEPT !.amt = NaT],
     [BaseRow EXCEPT !.col = NaN],
     [BaseRow EXCEPT !.id = NaN, !.sd = NaT, !.dol = Junk, !.amt = NaT, !.col = NaN]}

\* rows that differ in the categorical cells
CatRows ==
    {[BaseRow EXCEPT !.id = i, !.col = q[1], !.ko = q[2], !.occ = q[3],
                     !.kr = q[4], !.ch = q[5]] :
        i \in {"K1", "K2"},
        q \in {<<"Fire", "O1", "Home", "Low", "Agent">>,
               <<"Flood", "O2", "Shop", "High", "Broker">>,
               <<"Flood", NaN, NaN, NaN, NaN>>}}

CatHeaders ==
    {ReqSet \cup OptSet,
     ReqSet \cup {"Kode okupasi", "Occupancy", "Kategori Okupasi", "COB", "EDate"},
     ReqSet \cup {"kode okupasi", "kategori okupasi", "Edate"},
     ReqSet}

\* one claim whose lag runs over every bucket boundary
LagRows == {[BaseRow EXCEPT !.dol = D(n)] : n \in (0 - 3)..MaxLagDays}

HdrHeaders ==
    {(ReqSet \ M) \cup O :
        M \in SUBSET ReqSet, O \in {OptSet, {}, {"COB", "EDate"}}}

Uploads ==
    {MkTable(ReqSet \cup OptSet, s) : s \in SeqsUpTo(NumRows)}
    \cup {MkTable(ReqSet \cup OptSet, s) : s \in SeqsUpTo(NullRows)}
    \cup {MkTable(h, s) : h \in CatHeaders, s \in SeqsUpTo(CatRows)}
    \cup {MkTable(ReqSet \cup OptSet, <<r>>) : r \in LagRows}
    \cup {MkTable(h, s) : h \in HdrHeaders, s \in SeqsUpTo({BaseRow})}

-----------------------------------------------------------------------------
(* The script, one action per section *)

Init ==
    /\ pc = "rename"
    /\ df_raw \in Uploads
    /\ missing_required = <<>>
    /\ df = EmptyTable
    /\ initial_rows = 0
    /\ after_drop = 0
    /\ after_dedup = 0
    /\ filters = [c \in Range(FILTER_COLS) |-> {}]
    /\ df_f = EmptyTable
    /\ freq = <<>>
    /\ amt = <<>>
    /\ cause_freq = <<>>
    /\ cause_amt = <<>>

Rename ==
    /\ pc = "rename"
    /\ df_raw' = rename(df_raw)
    /\ pc' = "validate"
    /\ UNCHANGED <<missing_required, df, initial_rows, after_drop, after_dedup,
                   filters, df_f, freq, amt, cause_freq, cause_amt>>

Validate ==
    /\ pc = "validate"
    /\ missing_required' = MissingRequired(df_raw)
    /\ pc' = IF MissingRequired(df_raw) # <<>> THEN "halted" ELSE "clean"
    /\ UNCHANGED <<df_raw, df, initial_rows, after_drop, after_dedup,
                   filters, df_f, freq, amt, cause_freq, cause_amt>>

Clean ==
    /\ pc = "clean"
    /\ initial_rows' = Len(df_raw.rows)
    /\ after_drop' = Len(dropna(ParseDates(df_raw), REQUIRED_COLS).rows)
    /\ df' = FillOptional(dropna(ParseDates(df_raw), REQUIRED_COLS), OPTIONAL_COLS)
    /\ pc' = "dedup"
    /\ UNCHANGED <<df_raw, missing_required, after_dedup,
                   filters, df_f, freq, amt, cause_freq, cause_amt>>

Dedup ==
    /\ pc = "dedup"
    /\ df' = Deduplicate(df)
    /\ after_dedup' = Len(Deduplicate(df).rows)
    /\ pc' = "feature"
    /\ UNCHANGED <<df_raw, missing_required, initial_rows, after_drop,
                   filters, df_f, freq, amt, cause_freq, cause_amt>>

Feature ==
    /\ pc = "feature"
    /\ df' = AddFeatures(df)
    /\ pc' = "filter"
    /\ UNCHANGED <<df_raw, missing_required, initial_rows, after_drop, after_dedup,
                   filters, df_f, freq, amt, cause_freq, cause_amt>>

\* every multiselect defaults to all values; the user narrows one of them
Filter ==
    /\ pc = "filter"
    /\ \E c \in Range(FILTER_COLS) : \E S \in SUBSET Unique(df, c) :
          /\ filters' = [d \in Range(FILTER_COLS) |->
                            IF d = c THEN S ELSE Unique(df, d)]
          /\ df_f' = ApplyFilters(df, [d \in Range(FILTER_COLS) |->
                                          IF d = c THEN S ELSE Unique(df, d)])
    /\ pc' = "dashboard"
    /\ UNCHANGED <<df_raw, missing_required, df, initial_rows, after_drop,
                   after_dedup, freq, amt, cause_freq, cause_amt>>

Dashboard ==
    /\ pc = "dashboard"
    /\ freq' = GroupSize(df_f, "Loss Timing Bucket")
    /\ amt' = GroupSum(df_f, "Loss Timing Bucket", "Claim Amount")
    /\ cause_freq' = Kontribusi(GroupSize(df_f, "Cause of Loss"))
    /\ cause_amt' = Kontribusi(GroupSum(df_f, "Cause of Loss", "Claim Amount"))
    /\ pc' = "done"
    /\ UNCHANGED <<df_raw, missing_required, df, initial_rows, after_drop,
                   after_dedup, filters, df_f>>

Next ==
    \/ Rename
    \/ Validate
    \/ Clean
    \/ Dedup
    \/ Feature
    \/ Filter
    \/ Dashboard

Spec == Init /\ [][Next]_vars

-----------------------------------------------------------------------------
(* Properties *)

Cleaned == {"dedup", "feature", "filter", "dashboard", "done"}

Enriched == {"filter", "dashboard", "done"}

Rows(t) == Range(t.rows)

\* a row of the normalized upload with all five required cells usable
RawValid(q) ==
    /\ q.cells["Nomor klaim"] # NaN
    /\ q.cells["StartDate"].k \in {"date", "text"}
    /\ q.cells["Date of Loss"].k \in {"date", "text"}
    /\ q.cells["Claim Amount"].k = "num"
    /\ q.cells["Cause of Loss"] # NaN

RawOf(id) == SelectSeq(df_raw.rows, LAMBDA q : RawValid(q) /\ q.cells["Nomor klaim"] = id)

AmountsOf(rows) == SumSeq([i \in DOMAIN rows |-> rows[i].cells["Claim Amount"].v])

RowsOf(t, id) == SelectSeq(t.rows, LAMBDA r : r.cells["Nomor klaim"] = id)

\* C1: a row is in the cleaned table iff its five required cells are
\* non-null after date parsing; no cleaned row has a null required cell; a
\* removed row adds to no deduplicated claim and to no aggregate.
C1_RowCleaner ==
    /\ pc = "dedup" =>
          /\ {r.idx : r \in Rows(df)} = {q.idx : q \in {x \in Rows(df_raw) : RawValid(x)}}
          /\ Len(df.rows) = Cardinality({r.idx : r \in Rows(df)})
          /\ \A r \in Rows(df) : \A c \in Range(REQUIRED_COLS) : ~isna(c, r.cells[c])
    /\ pc \in Cleaned \ {"dedup"} =>
          /\ {r.cells["Nomor klaim"] : r \in Rows(df)}
                = {q.cells["Nomor klaim"] : q \in {x \in Rows(df_raw) : RawValid(x)}}
          /\ \A r \in Rows(df) :
                LET src == RawOf(r.cells["Nomor klaim"])
                IN  /\ r.cells["Claim Amount"].v = AmountsOf(src)
                    /\ r.cells["StartDate"].v
                          = SetMin({src[i].cells["StartDate"].v : i \in DOMAIN src})
                    /\ r.cells["Date of Loss"].v
                          = SetMin({src[i].cells["Date of Loss"].v : i \in DOMAIN src})
                    /\ r.cells["Cause of Loss"] = src[1].cells["Cause of Loss"]
    /\ pc = "done" =>
          /\ ViewTotal(freq) = Len(df_f.rows)
          /\ ViewTotal(cause_freq) = Len(df_f.rows)
          /\ Len(df_f.rows) <= Cardinality({q.cells["Nomor klaim"] :
                                  q \in {x \in Rows(df_raw) : RawValid(x)}})
          /\ df_f = df =>
                /\ ViewTotal(amt)
                      = AmountsOf(SelectSeq(df_raw.rows, LAMBDA q : RawValid(q)))
                /\ ViewTotal(cause_amt)
                      = AmountsOf(SelectSeq(df_raw.rows, LAMBDA q : RawValid(q)))

C1_Witness ==
    /\ pc = "done"
    /\ df_f = df
    /\ after_drop = 1
    /\ initial_rows = 2
    /\ \E q \in Rows(df_raw) : q.cells["Claim Amount"].k = "null"

\* C2: the missing list is exactly the required columns absent after
\* normalization; a non-empty list halts the run for good with nothing
\* computed, an empty one lets it go on; optional columns never halt it.
C2_SchemaValidator ==
    /\ pc \notin {"rename", "validate"} =>
          /\ Range(missing_required) = {c \in Range(REQUIRED_COLS) : c \notin df_raw.cols}
          /\ Len(missing_required) = Cardinality(Range(missing_required))
          /\ (pc = "halted") <=> (missing_required # <<>>)
    /\ pc = "halted" =>
          /\ df = EmptyTable /\ df_f = EmptyTable
          /\ initial_rows = 0 /\ after_drop = 0 /\ after_dedup = 0
          /\ freq = <<>> /\ amt = <<>> /\ cause_freq = <<>> /\ cause_amt = <<>>
    /\ pc \in {"rename", "validate"} => missing_required = <<>>

C2_Witness ==
    /\ pc = "halted"
    /\ missing_required = <<"Cause of Loss">>
    /\ Len(df_raw.rows) > 0

\* C3: deduplication yields exactly one row per distinct claim id of the
\* cleaned table, and after_dedup = #ids <= after_drop <= initial_rows.
C3_OneRowPerClaim ==
    [][pc = "dedup" =>
         /\ {r.cells["Nomor klaim"] : r \in Rows(df')}
               = {r.cells["Nomor klaim"] : r \in Rows(df)}
         /\ \A i, j \in DOMAIN df'.rows :
               df'.rows[i].cells["Nomor klaim"] = df'.rows[j].cells["Nomor klaim"] => i = j
         /\ after_dedup' = Len(df'.rows)
         /\ after_dedup' = Cardinality({r.cells["Nomor klaim"] : r \in Rows(df)})
         /\ after_drop = Len(df.rows)
         /\ after_dedup' <= after_drop
         /\ after_drop <= initial_rows
         /\ initial_rows = Len(df_raw.rows)]_vars

C3_Witness ==
    /\ pc = "feature"
    /\ after_dedup = 1
    /\ after_drop = 2
    /\ Len(df.rows) = 1

\* C4: each deduplicated Claim Amount is the sum over the cleaned rows of
\* its claim id, so the total amount is conserved.
C4_Conservation ==
    [][pc = "dedup" =>
         /\ \A g \in Rows(df') :
               g.cells["Claim Amount"].v = AmountsOf(RowsOf(df, g.cells["Nomor klaim"]))
         /\ AmountsOf(df'.rows) = AmountsOf(df.rows)]_vars

C4_Witness ==
    /\ pc = "feature"
    /\ after_drop = 2
    /\ Len(df.rows) = 1
    /\ df.rows[1].cells["Claim Amount"].v = 250

\* C5: Cause of Loss and the four optional columns of a deduplicated row
\* all come from the first cleaned row of that claim id in file order.
C5_FirstEncountered ==
    [][pc = "dedup" =>
         \A g \in Rows(df') :
            LET first == RowsOf(df, g.cells["Nomor klaim"])[1]
            IN  /\ \A c \in {"Cause of Loss"} \cup Range(OPTIONAL_COLS) :
                      g.cells[c] = first.cells[c]
                /\ \A r \in Rows(df) :
                      r.cells["Nomor klaim"] = g.cells["Nomor klaim"] => first.idx <= r.idx]_vars

C5_Witness ==
    /\ pc = "feature"
    /\ after_drop = 2
    /\ Len(df.rows) = 1
    /\ df_raw.rows[1].cells["Cause of Loss"] = "Flood"
    /\ df_raw.rows[2].cells["Cause of Loss"] = "Fire"
    /\ df.rows[1].cells["Cause of Loss"] = "Flood"
    /\ df.rows[1].cells["Occupancy"] = "Shop"

ScenarioA ==
    /\ Len(df_raw.rows) = 2
    /\ \A i \in 1..2 : df_raw.rows[i].cells["Nomor klaim"] = "K1"
    /\ \A i \in 1..2 : df_raw.rows[i].cells["StartDate"] = D(0)
    /\ df_raw.rows[1].cells["Date of Loss"] = T(0)
    /\ df_raw.rows[2].cells["Date of Loss"] = T(31)
    /\ df_raw.rows[1].cells["Claim Amount"] = Num(100)
    /\ df_raw.rows[2].cells["Claim Amount"] = Num(150)

\* C6: merged StartDate and Date of Loss are the two independent minima
\* over the claim's cleaned rows; Loss Lag Days is their signed difference
\* and no claim is lost whatever its sign; Scenario A gives one row of
\* amount 250, both dates the first day, lag 0, bucket "0-3 bulan".
C6_DateMergeAndLag ==
    /\ [][pc = "dedup" =>
            \A g \in Rows(df') :
               LET src == RowsOf(df, g.cells["Nomor klaim"])
               IN  /\ g.cells["StartDate"].k = "date"
                   /\ g.cells["Date of Loss"].k = "date"
                   /\ \E i \in DOMAIN src : g.cells["StartDate"].v = src[i].cells["StartDate"].v
                   /\ \E i \in DOMAIN src : g.cells["Date of Loss"].v = src[i].cells["Date of Loss"].v
                   /\ \A i \in DOMAIN src :
                         /\ g.cells["StartDate"].v <= src[i].cells["StartDate"].v
                         /\ g.cells["Date of Loss"].v <= src[i].cells["Date of Loss"].v]_vars
    /\ [](pc \in Enriched =>
            /\ Len(df.rows) = after_dedup
            /\ \A r \in Rows(df) :
                  r.cells["Loss Lag Days"]
                     = r.cells["Date of Loss"].v - r.cells["StartDate"].v
            /\ ScenarioA =>
                  /\ Len(df.rows) = 1
                  /\ df.rows[1].cells["Claim Amount"].v = 250
                  /\ df.rows[1].cells["StartDate"] = D(0)
                  /\ df.rows[1].cells["Date of Loss"] = D(0)
                  /\ df.rows[1].cells["Loss Lag Days"] = 0
                  /\ df.rows[1].cells["Loss Timing Bucket"] = "0-3 bulan")

C6_Witness == pc = "filter" /\ ScenarioA /\ Len(df.rows) = 1

DayBucket(days) ==
    CASE days <= 90                  -> "0-3 bulan"
      [] days >= 91 /\ days <= 180   -> ">3-6 bulan"
      [] days >= 181 /\ days <= 360  -> ">6-12 bulan"
      [] days >= 361 /\ days <= 720  -> ">12-24 bulan"
      [] days >= 721                 -> ">24 bulan"

\* C7: every enriched claim carries exactly one of the five labels, the one
\* of its day range: <= 90, 91..180, 181..360, 361..720, >= 721 (Loss Lag
\* Months = days / 30 against the inclusive limits 3, 6, 12, 24).
C7_LossBucket ==
    pc \in Enriched =>
       \A r \in Rows(df) :
          /\ r.cells["Loss Lag Months"] = [num |-> r.cells["Loss Lag Days"], den |-> 30]
          /\ r.cells["Loss Timing Bucket"] = DayBucket(r.cells["Loss Lag Days"])
          /\ r.cells["Loss Lag Days"] < 0 => r.cells["Loss Timing Bucket"] = "0-3 bulan"

C7_Witness ==
    /\ pc = "filter"
    /\ Len(df.rows) = 1
    /\ df.rows[1].cells["Loss Lag Days"] = 90
    /\ df.rows[1].cells["Loss Timing Bucket"] = "0-3 bulan"

\* C8: an optional column absent from the file is "ALL" in every cleaned
\* row; in a present one exactly the null cells become "UNKNOWN"; no cleaned
\* optional cell is null and no row is dropped for a null optional cell.
C8_OptionalFill ==
    pc = "dedup" =>
       /\ \A r \in Rows(df) : \A c \in Range(OPTIONAL_COLS) :
             LET raw == df_raw.rows[r.idx + 1]
             IN  /\ r.cells[c] # NaN
                 /\ c \notin df_raw.cols => r.cells[c] = "ALL"
                 /\ (c \in df_raw.cols /\ raw.cells[c] = NaN) => r.cells[c] = "UNKNOWN"
                 /\ (c \in df_raw.cols /\ raw.cells[c] # NaN) => r.cells[c] = raw.cells[c]
       /\ \A q \in Rows(df_raw) : RawValid(q) => \E r \in Rows(df) : r.idx = q.idx

C8_Witness ==
    /\ pc = "dedup"
    /\ "Occupancy" \notin df_raw.cols
    /\ "Kode Okupasi" \in df_raw.cols
    /\ \E r \in Rows(df) :
          /\ df_raw.rows[r.idx + 1].cells["Kode Okupasi"] = NaN
          /\ r.cells["Kode Okupasi"] = "UNKNOWN"
          /\ r.cells["Occupancy"] = "ALL"

PctSumsTo100(view) ==
    /\ ViewTotal(view) # 0
    /\ \A g \in DOMAIN view : view[g].pct.den = ViewTotal(view)
    /\ SumSeq([g \in DOMAIN view |-> view[g].pct.num]) = 100 * ViewTotal(view)

\* C9: for every non-empty filtered table the % Kontribusi column of the
\* frequency view and that of the amount view each sum to 100, the total
\* being non-zero.
C9_PercentSum ==
    (pc = "done" /\ df_f.rows # <<>>) =>
        /\ PctSumsTo100(cause_freq)
        /\ PctSumsTo100(cause_amt)

\* C10: the merged lag of a claim lies between the smallest and the largest
\* lag of its cleaned rows, and is the row's own lag for a single-row claim.
C10_LagBounds ==
    pc \in Enriched =>
       \A r \in Rows(df) :
          LET src == RawOf(r.cells["Nomor klaim"])
              lag(i) == src[i].cells["Date of Loss"].v - src[i].cells["StartDate"].v
          IN  /\ \E i \in DOMAIN src : lag(i) <= r.cells["Loss Lag Days"]
              /\ \E i \in DOMAIN src : r.cells["Loss Lag Days"] <= lag(i)
              /\ (\A i \in DOMAIN src : lag(i) >= 0) => r.cells["Loss Lag Days"] >= 0
              /\ Len(src) = 1 => r.cells["Loss Lag Days"] = lag(1)

C10_Witness ==
    /\ pc = "filter"
    /\ Len(df.rows) = 1
    /\ Len(RawOf("K1")) = 2
    /\ df.rows[1].cells["Loss Lag Days"] = 0
    /\ RawOf("K1")[1].cells["Date of Loss"].v - RawOf("K1")[1].cells["StartDate"].v = 31
    /\ RawOf("K1")[2].cells["Date of Loss"].v - RawOf("K1")[2].cells["StartDate"].v = 0 - 40

====
